---- MODULE Spec2Model ----
(***************************************************************************)
(* The relay loop of scripts/engine.py: a single-threaded pump that polls  *)
(* a SUB socket for camera frames, decodes each frame, runs the pose       *)
(* estimator on it, and publishes a preview image and (when keypoints were *)
(* extracted) a keypoint message on two PUB sockets.                       *)
(*                                                                         *)
(* Python values are modelled as records with a "kind" field; None is the  *)
(* record None.  A multipart message is the sequence of its parts, so the  *)
(* Python index msg[1] is msg[2] here.                                     *)
(***************************************************************************)
EXTENDS Integers, Sequences, FiniteSets, TLC

\* Bounds of the model.
MaxFrames == 2        \* messages the camera process publishes in one run
MaxLandmarks == 2     \* landmarks in the longest world-landmark list

\* cv2.IMWRITE_JPEG_QUALITY value passed to imencode.
JpegQuality == 70

VARIABLES
    inQ,         \* receive queue of socket_sub: multipart messages not yet received
    produced,    \* number of messages the camera process has published
    pc,          \* the line main() is at
    msg,         \* local msg: the parts of the last received message
    frame,       \* local frame: the pixel buffer, or None
    results,     \* local results: the estimator's output, or None
    kp_list,     \* local kp_list: flattened keypoints
    buffer,      \* local buffer: the encoded preview, or None
    exc,         \* the exception caught by the loop's handlers, or "none"
    pubImg,      \* messages sent on socket_pub_img, in order
    pubPose,     \* messages sent on socket_pub_pose, in order
    closed,      \* the sockets closed so far, in the order of their close()
    trace        \* history: the loop's events, in order

vars == <<inQ, produced, pc, msg, frame, results, kp_list, buffer, exc,
          pubImg, pubPose, closed, trace>>

None == [kind |-> "None"]

----------------------------------------------------------------------------
\* Byte strings and pixel buffers.

\* b'' : a zero-length message part.
EmptyBytes == [kind |-> "empty"]

\* Bytes that are not an image in any format imdecode knows.
NoiseBytes == [kind |-> "noise"]

\* A decoded image: shape (h, w, 3), pixel content pix, and whether the
\* skeleton has been drawn onto it.
PixelBuffer(w, h, pix, overlay) ==
    [kind |-> "frame", w |-> w, h |-> h, pix |-> pix, overlay |-> overlay]

\* The compressed bytes of a pixel buffer at a given quality.
JpegBytes(buf, quality) == [kind |-> "jpeg", buf |-> buf, quality |-> quality]

\* The k-th frame the camera captures: every capture has its own pixel
\* content k.  The camera compresses at CameraQuality.
Image(k) == PixelBuffer(640, 480, k, FALSE)
SmallImage(k) == PixelBuffer(320, 240, k, FALSE)
CameraQuality == JpegQuality + 20

\* An opaque metadata part.
MetaBytes(id) == [kind |-> "meta", id |-> id]
Metas == {MetaBytes("m0")}

\* The multipart messages that can arrive on socket_sub as the k-th message:
\* the camera's two-part framing with an image, with noise and with no bytes
\* as payload, and messages with one part too few or one too many.
InboundMessages(k) ==
    {<<m, p>> : m \in Metas, p \in {EmptyBytes, NoiseBytes, JpegBytes(Image(k), CameraQuality)}}
    \cup {<<m>> : m \in Metas}
    \cup {<<m, JpegBytes(SmallImage(k), CameraQuality), m>> : m \in Metas}

\* Metadata of another producer: bytes that are not JSON.
OtherMetas == {MetaBytes("m1")}

\* The two-part messages with an image and with noise as payload, under the
\* other metadata.
OtherInboundMessages(k) ==
    {<<m, p>> : m \in OtherMetas, p \in {NoiseBytes, JpegBytes(Image(k), CameraQuality)}}

\* cv2.imdecode on a non-empty buffer: the image, or None when the bytes are
\* no image.  (On an empty buffer it raises; see Decode.)
imdecode(bytes) == IF bytes.kind = "jpeg" THEN bytes.buf ELSE None

\* cv2.imencode('.jpg', frame, [IMWRITE_JPEG_QUALITY, q]).
imencode(buf, quality) == JpegBytes(buf, quality)

----------------------------------------------------------------------------
\* History.

Event(kind, n) == [kind |-> kind, n |-> n]

\* Indices of the trace events of one kind.
Events(kind) == {i \in DOMAIN trace : trace[i].kind = kind}

\* The number of messages received so far; frame n is the n-th received.
NumRecv == Cardinality(Events("recv"))

----------------------------------------------------------------------------
Init ==
    /\ inQ = <<>>
    /\ produced = 0
    /\ pc = "poll"
    /\ msg = <<>>
    /\ frame = None
    /\ results = None
    /\ kp_list = <<>>
    /\ buffer = None
    /\ exc = "none"
    /\ pubImg = <<>>
    /\ pubPose = <<>>
    /\ closed = <<>>
    /\ trace = <<>>

\* The camera process publishes a message; the SUB socket queues it.
Produce ==
    /\ produced < MaxFrames
    /\ \E m \in InboundMessages(produced + 1) : inQ' = Append(inQ, m)
    /\ produced' = produced + 1
    /\ UNCHANGED <<pc, msg, frame, results, kp_list, buffer, exc,
                   pubImg, pubPose, closed, trace>>

\* A producer with other metadata publishes a message.
ProduceOtherMeta ==
    /\ produced < MaxFrames
    /\ \E m \in OtherInboundMessages(produced + 1) : inQ' = Append(inQ, m)
    /\ produced' = produced + 1
    /\ UNCHANGED <<pc, msg, frame, results, kp_list, buffer, exc,
                   pubImg, pubPose, closed, trace>>

\* An exception that is an Exception is raised inside the try block: control
\* goes to the handler of line 89.
RaiseException(e) ==
    /\ pc' = "log_error"
    /\ exc' = e
    /\ trace' = Append(trace, [kind |-> "raise", n |-> NumRecv, exc |-> e, at |-> pc])

\* socket_sub.poll(10) finds a message queued.
PollReady ==
    /\ pc = "poll"
    /\ inQ # <<>>
    /\ pc' = "recv"
    /\ UNCHANGED <<inQ, produced, msg, frame, results, kp_list, buffer, exc,
                   pubImg, pubPose, closed, trace>>

\* Mutant of PollTimeout: the receive is called whatever the poll returned.
PollTimeout_Recv ==
    /\ pc = "poll"
    /\ inQ = <<>>
    /\ pc' = "recv"
    /\ UNCHANGED <<inQ, produced, msg, frame, results, kp_list, buffer, exc,
                   pubImg, pubPose, closed, trace>>

\* socket_sub.poll(10) times out: the if body is skipped, the loop repeats.
PollTimeout ==
    /\ pc = "poll"
    /\ inQ = <<>>
    /\ pc' = "poll"
    /\ UNCHANGED <<inQ, produced, msg, frame, results, kp_list, buffer, exc,
                   pubImg, pubPose, closed, trace>>

\* Mutant of Recv: the newest message is taken, the older ones stay queued.
Recv_Newest ==
    /\ pc = "recv"
    /\ inQ # <<>>
    /\ msg' = inQ[Len(inQ)]
    /\ inQ' = SubSeq(inQ, 1, Len(inQ) - 1)
    /\ trace' = Append(trace, [kind |-> "recv", n |-> NumRecv + 1, msg |-> inQ[Len(inQ)]])
    /\ pc' = "decode"
    /\ UNCHANGED <<produced, frame, results, kp_list, buffer, exc,
                   pubImg, pubPose, closed>>

\* Mutant of Recv: the queue is drained and only the newest message is kept.
Recv_Drain ==
    /\ pc = "recv"
    /\ inQ # <<>>
    /\ msg' = inQ[Len(inQ)]
    /\ inQ' = <<>>
    /\ trace' = Append(trace, [kind |-> "recv", n |-> NumRecv + 1, msg |-> inQ[Len(inQ)]])
    /\ pc' = "decode"
    /\ UNCHANGED <<produced, frame, results, kp_list, buffer, exc,
                   pubImg, pubPose, closed>>

\* msg = socket_sub.recv_multipart(): blocks until a message is queued, then
\* takes the oldest one.
Recv ==
    /\ pc = "recv"
    /\ inQ # <<>>
    /\ msg' = Head(inQ)
    /\ inQ' = Tail(inQ)
    /\ trace' = Append(trace, [kind |-> "recv", n |-> NumRecv + 1, msg |-> Head(inQ)])
    /\ pc' = "decode"
    /\ UNCHANGED <<produced, frame, results, kp_list, buffer, exc,
                   pubImg, pubPose, closed>>

\* Mutant of Decode: the metadata part is parsed as JSON before the decode.
Decode_ParsesMeta ==
    /\ pc = "decode"
    /\ IF msg[1] \in OtherMetas
         THEN /\ RaiseException("json.JSONDecodeError")
              /\ UNCHANGED frame
         ELSE IF Len(msg) < 2
         THEN /\ RaiseException("IndexError")
              /\ UNCHANGED frame
         ELSE IF msg[2].kind = "empty"
         THEN /\ RaiseException("cv2.error")
              /\ UNCHANGED frame
         ELSE /\ frame' = imdecode(msg[2])
              /\ exc' = exc
              /\ IF frame' = None
                   THEN /\ pc' = "poll"
                        /\ trace' = Append(trace, Event("skip", NumRecv))
                   ELSE /\ pc' = "estimate"
                        /\ trace' = Append(trace, Event("decoded", NumRecv))
    /\ UNCHANGED <<inQ, produced, msg, results, kp_list, buffer,
                   pubImg, pubPose, closed>>

\* Mutant of Decode: a frame that fails to decode ends the loop.
Decode_BreakOnNone ==
    /\ pc = "decode"
    /\ IF Len(msg) < 2
         THEN /\ RaiseException("IndexError")
              /\ UNCHANGED frame
         ELSE IF msg[2].kind = "empty"
         THEN /\ RaiseException("cv2.error")
              /\ UNCHANGED frame
         ELSE /\ frame' = imdecode(msg[2])
              /\ exc' = exc
              /\ IF frame' = None
                   THEN /\ pc' = "shutdown"
                        /\ trace' = Append(trace, Event("skip", NumRecv))
                   ELSE /\ pc' = "estimate"
                        /\ trace' = Append(trace, Event("decoded", NumRecv))
    /\ UNCHANGED <<inQ, produced, msg, results, kp_list, buffer,
                   pubImg, pubPose, closed>>

\* np.frombuffer(msg[1]), cv2.imdecode, and the test of frame against None.
Decode ==
    /\ pc = "decode"
    /\ IF Len(msg) < 2
         THEN \* msg[1]: IndexError
              /\ RaiseException("IndexError")
              /\ UNCHANGED frame
         ELSE IF msg[2].kind = "empty"
         THEN \* cv2.imdecode asserts !buf.empty(): cv2.error
              /\ RaiseException("cv2.error")
              /\ UNCHANGED frame
         ELSE /\ frame' = imdecode(msg[2])
              /\ exc' = exc
              /\ IF frame' = None
                   THEN /\ pc' = "poll"
                        /\ trace' = Append(trace, Event("skip", NumRecv))
                   ELSE /\ pc' = "estimate"
                        /\ trace' = Append(trace, Event("decoded", NumRecv))
    /\ UNCHANGED <<inQ, produced, msg, results, kp_list, buffer,
                   pubImg, pubPose, closed>>


----------------------------------------------------------------------------
\* The pose estimator's output.

\* The i-th world landmark found in the image of pixel content k.  The fields
\* are protobuf 32-bit floats; the numbers stand for float32 values, distinct
\* per image, per landmark and per field.
Landmark(i, k) ==
    [x |-> 100 * k + 4 * i - 3, y |-> 100 * k + 4 * i - 2,
     z |-> 100 * k + 4 * i - 1, visibility |-> 100 * k + 4 * i]

\* The pixel content of the image a landmark value was found in.
PixOfValue(v) == v \div 100

\* results.pose_world_landmarks with n landmarks, in model index order.
LandmarkList(n, k) ==
    [kind |-> "LandmarkList", landmark |-> [i \in 1..n |-> Landmark(i, k)]]

\* results.pose_landmarks when a pose was detected (image-space landmarks).
NormalizedLandmarkList == [kind |-> "NormalizedLandmarkList"]

\* What pose.process can return for a pixel buffer: both outputs None when no
\* pose is detected; otherwise the image-space landmarks, and as the separate
\* world-landmark output None or a list of any length.
EstimatorResults(buf) ==
    {[kind |-> "results", pose_landmarks |-> None, pose_world_landmarks |-> None]}
    \cup {[kind |-> "results", pose_landmarks |-> NormalizedLandmarkList,
            pose_world_landmarks |-> wl] :
              wl \in {None} \cup {LandmarkList(n, buf.pix) : n \in 0..MaxLandmarks}}

\* Mutant of extend: the visibility of each landmark is left out.
RECURSIVE extend_xyz(_)
extend_xyz(lms) ==
    IF lms = <<>> THEN <<>>
    ELSE <<Head(lms).x, Head(lms).y, Head(lms).z>> \o extend_xyz(Tail(lms))

\* kp_list after the for loop of lines 72-73 over the landmarks lms.
RECURSIVE extend(_)
extend(lms) ==
    IF lms = <<>> THEN <<>>
    ELSE <<Head(lms).x, Head(lms).y, Head(lms).z, Head(lms).visibility>> \o extend(Tail(lms))

\* mp_drawing.draw_landmarks: draws the skeleton onto the buffer in place.
draw_landmarks(buf) == [buf EXCEPT !.overlay = TRUE]

\* The four bytes of one float32.
Float32Bytes(v) == [b \in 1..4 |-> [f32 |-> v, byte |-> b - 1]]

\* np.array(kp, dtype=np.float32).tobytes()
RECURSIVE tobytes(_)
tobytes(kp) == IF kp = <<>> THEN <<>> ELSE Float32Bytes(Head(kp)) \o tobytes(Tail(kp))

\* json.dumps(obj).encode('utf-8')
JsonBytes(obj) == [kind |-> "json", obj |-> obj]

\* Mutant of send_multipart: the message goes ahead of those already sent.
send_multipart_front(sent, parts) == <<parts>> \o sent

\* socket.send_multipart(parts): the message joins those already sent.
send_multipart(sent, parts) == Append(sent, parts)

\* time.time() readings.
Clock == {1000}

\* results = pose.process(cv2.cvtColor(frame, cv2.COLOR_BGR2RGB))
Estimate ==
    /\ pc = "estimate"
    /\ \E r \in EstimatorResults(frame) :
         /\ results' = r
         /\ trace' = Append(trace, [kind |-> "estimate", n |-> NumRecv, results |-> r])
    /\ pc' = "keypoints"
    /\ UNCHANGED <<inQ, produced, msg, frame, kp_list, buffer, exc,
                   pubImg, pubPose, closed>>

\* Mutant of Keypoints: the skeleton is drawn without testing pose_landmarks.
Keypoints_AlwaysDraw ==
    /\ pc = "keypoints"
    /\ frame' = draw_landmarks(frame)
    /\ trace' = Append(trace, Event("draw", NumRecv))
    /\ kp_list' = IF results.pose_landmarks # None /\ results.pose_world_landmarks # None
                    THEN extend(results.pose_world_landmarks.landmark)
                    ELSE <<>>
    /\ pc' = "encode"
    /\ UNCHANGED <<inQ, produced, msg, results, buffer, exc, pubImg, pubPose, closed>>

\* Mutant of Keypoints: kp_list is not reset at line 65, it keeps growing.
Keypoints_NoReset ==
    /\ pc = "keypoints"
    /\ IF results.pose_landmarks # None
         THEN /\ frame' = draw_landmarks(frame)
              /\ IF results.pose_world_landmarks = None
                   THEN /\ kp_list' = kp_list
                        /\ pc' = "log_error"
                        /\ exc' = "AttributeError"
                        /\ trace' = trace \o <<Event("draw", NumRecv),
                                               [kind |-> "raise", n |-> NumRecv,
                                                exc |-> "AttributeError", at |-> pc]>>
                   ELSE /\ kp_list' = kp_list \o extend(results.pose_world_landmarks.landmark)
                        /\ pc' = "encode"
                        /\ exc' = exc
                        /\ trace' = Append(trace, Event("draw", NumRecv))
         ELSE /\ pc' = "encode"
              /\ UNCHANGED <<kp_list, frame, exc, trace>>
    /\ UNCHANGED <<inQ, produced, msg, results, buffer, pubImg, pubPose, closed>>

\* Lines 65-73: reset kp_list; when pose_landmarks is set, draw the skeleton
\* and flatten the world landmarks.
Keypoints ==
    /\ pc = "keypoints"
    /\ IF results.pose_landmarks # None
         THEN /\ frame' = draw_landmarks(frame)
              /\ IF results.pose_world_landmarks = None
                   THEN \* None.landmark: AttributeError, after the drawing
                        /\ kp_list' = <<>>
                        /\ pc' = "log_error"
                        /\ exc' = "AttributeError"
                        /\ trace' = trace \o <<Event("draw", NumRecv),
                                               [kind |-> "raise", n |-> NumRecv,
                                                exc |-> "AttributeError", at |-> pc]>>
                   ELSE /\ kp_list' = extend(results.pose_world_landmarks.landmark)
                        /\ pc' = "encode"
                        /\ exc' = exc
                        /\ trace' = Append(trace, Event("draw", NumRecv))
         ELSE /\ kp_list' = <<>>
              /\ pc' = "encode"
              /\ UNCHANGED <<frame, exc, trace>>
    /\ UNCHANGED <<inQ, produced, msg, results, buffer, pubImg, pubPose, closed>>

\* _, buffer = cv2.imencode('.jpg', frame, [IMWRITE_JPEG_QUALITY, 70])
Encode ==
    /\ pc = "encode"
    /\ buffer' = imencode(frame, JpegQuality)
    /\ pc' = "send_img"
    /\ UNCHANGED <<inQ, produced, msg, frame, results, kp_list, exc,
                   pubImg, pubPose, closed, trace>>

\* Mutant of SendPreview: the preview is sent only when keypoints were
\* extracted.
SendPreview_OnlyWithKeypoints ==
    /\ pc = "send_img"
    /\ IF kp_list # <<>>
         THEN \E ts \in Clock :
                LET parts == <<JsonBytes([w |-> frame.w, h |-> frame.h, ts |-> ts]), buffer>>
                IN  /\ pubImg' = send_multipart(pubImg, parts)
                    /\ trace' = Append(trace, [kind |-> "pub_img", n |-> NumRecv,
                                                parts |-> parts])
         ELSE UNCHANGED <<pubImg, trace>>
    /\ pc' = "send_pose"
    /\ UNCHANGED <<inQ, produced, msg, frame, results, kp_list, buffer, exc,
                   pubPose, closed>>

\* Mutant of SendPreview: the loop repeats right after the preview.
SendPreview_Continue ==
    /\ pc = "send_img"
    /\ \E ts \in Clock :
         LET parts == <<JsonBytes([w |-> frame.w, h |-> frame.h, ts |-> ts]), buffer>>
         IN  /\ pubImg' = send_multipart(pubImg, parts)
             /\ trace' = Append(trace, [kind |-> "pub_img", n |-> NumRecv, parts |-> parts])
    /\ pc' = "poll"
    /\ UNCHANGED <<inQ, produced, msg, frame, results, kp_list, buffer, exc,
                   pubPose, closed>>

\* Mutant of SendPreview: the keypoints are sent first, the preview after them.
SendPreview_PoseFirst ==
    /\ pc = "send_img"
    /\ \E ts \in Clock :
         LET img == <<JsonBytes([w |-> frame.w, h |-> frame.h, ts |-> ts]), buffer>>
             pose == <<JsonBytes([count |-> Len(kp_list) \div 4]), tobytes(kp_list)>>
             sent == IF kp_list # <<>>
                       THEN <<[kind |-> "pub_pose", n |-> NumRecv, parts |-> pose]>>
                       ELSE <<>>
         IN  /\ pubPose' = IF kp_list # <<>> THEN send_multipart(pubPose, pose) ELSE pubPose
             /\ pubImg' = send_multipart(pubImg, img)
             /\ trace' = trace \o sent
                            \o <<[kind |-> "pub_img", n |-> NumRecv, parts |-> img]>>
    /\ pc' = "poll"
    /\ UNCHANGED <<inQ, produced, msg, frame, results, kp_list, buffer, exc, closed>>

\* Lines 78-79: build meta_img and send the preview.
SendPreview ==
    /\ pc = "send_img"
    /\ \E ts \in Clock :
         LET parts == <<JsonBytes([w |-> frame.w, h |-> frame.h, ts |-> ts]), buffer>>
         IN  /\ pubImg' = send_multipart(pubImg, parts)
             /\ trace' = Append(trace, [kind |-> "pub_img", n |-> NumRecv, parts |-> parts])
    /\ pc' = "send_pose"
    /\ UNCHANGED <<inQ, produced, msg, frame, results, kp_list, buffer, exc,
                   pubPose, closed>>

\* Mutant of SendPose: the test of kp_list is left out.
SendPose_Unguarded ==
    /\ pc = "send_pose"
    /\ IF results.pose_world_landmarks = None
         THEN /\ RaiseException("AttributeError")
              /\ UNCHANGED pubPose
         ELSE LET parts ==
                      <<JsonBytes([count |-> Len(results.pose_world_landmarks.landmark)]),
                        tobytes(kp_list)>>
              IN  /\ pubPose' = send_multipart(pubPose, parts)
                  /\ trace' = Append(trace, [kind |-> "pub_pose", n |-> NumRecv,
                                              parts |-> parts])
                  /\ pc' = "poll"
                  /\ exc' = exc
    /\ UNCHANGED <<inQ, produced, msg, frame, results, kp_list, buffer,
                   pubImg, closed>>

\* Lines 82-85: send the keypoints when kp_list is not empty; then the loop
\* repeats.
SendPose ==
    /\ pc = "send_pose"
    /\ IF kp_list # <<>>
         THEN LET parts ==
                      <<JsonBytes([count |-> Len(results.pose_world_landmarks.landmark)]),
                        tobytes(kp_list)>>
              IN  /\ pubPose' = send_multipart(pubPose, parts)
                  /\ trace' = Append(trace, [kind |-> "pub_pose", n |-> NumRecv,
                                              parts |-> parts])
         ELSE UNCHANGED <<pubPose, trace>>
    /\ pc' = "poll"
    /\ UNCHANGED <<inQ, produced, msg, frame, results, kp_list, buffer, exc,
                   pubImg, closed>>

----------------------------------------------------------------------------
\* Failures and the interrupt.

\* The lines inside the try block.
TryLines == {"poll", "recv", "decode", "estimate", "keypoints", "encode",
             "send_img", "send_pose"}

\* The lines after the loop: "shutdown" is lines 93-94, then lines 95, 96, 97.
ShutdownLines == {"shutdown", "close_img", "close_pose", "term"}

\* The exception a failing library call raises at each line.
LibraryError ==
    [l \in {"poll", "recv", "estimate", "encode", "send_img", "send_pose"} |->
        CASE l \in {"poll", "recv", "send_img", "send_pose"} -> "zmq.ZMQError"
          [] l = "estimate" -> "RuntimeError"
          [] l = "encode" -> "cv2.error"]

\* A library call of the try block fails with an Exception.
Fail ==
    /\ pc \in DOMAIN LibraryError
    /\ pc = "send_pose" => kp_list # <<>>
    /\ RaiseException(LibraryError[pc])
    /\ UNCHANGED <<inQ, produced, msg, frame, results, kp_list, buffer,
                   pubImg, pubPose, closed>>

\* Mutant of LogError: the handler continues the loop instead of leaving it.
LogError_Continue ==
    /\ pc = "log_error"
    /\ pc' = "poll"
    /\ UNCHANGED <<inQ, produced, msg, frame, results, kp_list, buffer, exc,
                   pubImg, pubPose, closed, trace>>

\* Line 90-91: print the error, break.
LogError ==
    /\ pc = "log_error"
    /\ pc' = "shutdown"
    /\ UNCHANGED <<inQ, produced, msg, frame, results, kp_list, buffer, exc,
                   pubImg, pubPose, closed, trace>>

\* KeyboardInterrupt raised inside the try block: line 87-88, break.
InterruptInTry ==
    /\ pc \in TryLines
    /\ pc' = "shutdown"
    /\ exc' = "KeyboardInterrupt"
    /\ trace' = Append(trace, Event("interrupt", NumRecv))
    /\ UNCHANGED <<inQ, produced, msg, frame, results, kp_list, buffer,
                   pubImg, pubPose, closed>>

\* KeyboardInterrupt raised outside the try block (in the handler of line 90
\* or in lines 93-97): nothing catches it, it propagates out of main.
InterruptUncaught ==
    /\ pc \in ShutdownLines \cup {"log_error"}
    /\ pc' = "crashed"
    /\ exc' = "KeyboardInterrupt"
    /\ trace' = Append(trace, Event("interrupt", NumRecv))
    /\ UNCHANGED <<inQ, produced, msg, frame, results, kp_list, buffer,
                   pubImg, pubPose, closed>>

\* socket.close() at lines 94-96 (the first one with the print of line 93).
Close(line, socket, next) ==
    /\ pc = line
    /\ closed' = Append(closed, socket)
    /\ pc' = next
    /\ UNCHANGED <<inQ, produced, msg, frame, results, kp_list, buffer, exc,
                   pubImg, pubPose, trace>>

CloseSub == Close("shutdown", "socket_sub", "close_img")
CloseImg == Close("close_img", "socket_pub_img", "close_pose")
ClosePose == Close("close_pose", "socket_pub_pose", "term")

\* context.term(), and main returns.
Term ==
    /\ pc = "term"
    /\ pc' = "exited"
    /\ UNCHANGED <<inQ, produced, msg, frame, results, kp_list, buffer, exc,
                   pubImg, pubPose, closed, trace>>

Next ==
    \/ Produce
    \/ PollReady
    \/ PollTimeout
    \/ Recv
    \/ Decode
    \/ Estimate
    \/ Keypoints
    \/ Encode
    \/ SendPreview
    \/ SendPose
    \/ Fail
    \/ LogError
    \/ InterruptInTry
    \/ InterruptUncaught
    \/ CloseSub
    \/ CloseImg
    \/ ClosePose
    \/ Term

Spec == Init /\ [][Next]_vars

\* The loop fed by producers with different metadata.
NextMeta ==
    \/ Next
    \/ ProduceOtherMeta

SpecMeta == Init /\ [][NextMeta]_vars

\* The statements of one iteration of the while loop.  The loop is a single
\* sequential thread: whenever its next statement can run, it does.
LoopStep ==
    \/ PollReady
    \/ Recv
    \/ Decode
    \/ Estimate
    \/ Keypoints
    \/ Encode
    \/ SendPreview
    \/ SendPose

LiveSpec == Spec /\ WF_vars(LoopStep)

----------------------------------------------------------------------------
\* Reading the history.

\* Frame n is the n-th message received.
Frames == 1..NumRecv

\* The events of one kind logged while frame n was the current frame.
At(kind, n) == {i \in Events(kind) : trace[i].n = n}

\* The message received as frame n.
RecvMsg(n) == trace[CHOOSE i \in At("recv", n) : TRUE].msg

\* Frame n's payload decoded to a pixel buffer.
Decoded(n) == At("decoded", n) # {}

\* Frame n was abandoned because imdecode returned None.
Skipped(n) == At("skip", n) # {}

\* The estimator ran on frame n / what it returned.
Estimated(n) == At("estimate", n) # {}
ResultsOf(n) == trace[CHOOSE i \in At("estimate", n) : TRUE].results

\* The loop is back at the poll after working on frame n.
ReturnedToPoll(n) == n < NumRecv \/ (n = NumRecv /\ pc \in {"poll", "recv"})

\* The pixel content of the image in frame n's payload.
PixOf(n) == RecvMsg(n)[2].buf.pix

\* The number of world landmarks the estimator returned for frame n.
NumLandmarks(n) == Len(ResultsOf(n).pose_world_landmarks.landmark)

\* A pose was detected in frame n, with at least one world landmark.
LandmarksFound(n) ==
    /\ Estimated(n)
    /\ ResultsOf(n).pose_landmarks # None
    /\ ResultsOf(n).pose_world_landmarks # None
    /\ NumLandmarks(n) > 0

\* No pose was detected in frame n.
NoLandmarks(n) == Estimated(n) /\ ResultsOf(n).pose_landmarks = None

----------------------------------------------------------------------------
\* C1: every frame that decodes to a pixel buffer has exactly one preview
\* published for it by the time the loop is back at the poll: never two at
\* any time, never zero once the loop has returned to the poll, whether or
\* not landmarks were found; and the preview carries that frame's image.
C1_OnePreviewPerDecodedFrame ==
    /\ Len(pubImg) = Cardinality(Events("pub_img"))
    /\ \A n \in Frames :
         Decoded(n) =>
            /\ Cardinality(At("pub_img", n)) <= 1
            /\ ReturnedToPoll(n) => Cardinality(At("pub_img", n)) = 1
            /\ \A i \in At("pub_img", n) :
                 /\ trace[i].parts[2].buf.pix = PixOf(n)
                 /\ \E k \in DOMAIN pubImg : pubImg[k] = trace[i].parts

\* C1 witness: the loop is back at the poll after a decoded frame without
\* landmarks and after a decoded frame with landmarks, each with its preview.
C1_Witness ==
    \E n, m \in Frames :
        /\ Decoded(n) /\ ReturnedToPoll(n) /\ NoLandmarks(n)
        /\ Decoded(m) /\ ReturnedToPoll(m) /\ LandmarksFound(m)
        /\ Len(pubImg) = 2

\* C2: every message sent on the pose channel has count > 0 and a non-empty
\* payload, and was sent for a frame in which landmarks were detected.
C2_PoseOnlyWithLandmarks ==
    /\ \A k \in DOMAIN pubPose :
         /\ pubPose[k][1].obj.count > 0
         /\ pubPose[k][2] # <<>>
    /\ \A n \in Frames : At("pub_pose", n) # {} => LandmarksFound(n)
    /\ Len(pubPose) = Cardinality(Events("pub_pose"))

\* C2 witness: a frame with an empty world-landmark list and a frame without
\* a detected pose went through the loop, and a frame with landmarks had its
\* pose message sent.
C2_Witness ==
    /\ \E n \in Frames :
         /\ ReturnedToPoll(n) /\ Decoded(n)
         /\ ResultsOf(n).pose_landmarks # None
         /\ ResultsOf(n).pose_world_landmarks # None
         /\ NumLandmarks(n) = 0
    /\ \E n \in Frames : LandmarksFound(n) /\ At("pub_pose", n) # {}

\* C3: a pose message sent for a frame whose estimation returned N landmarks
\* has count = N and a payload of 4*N float32 values, 16*N bytes, landmark
\* after landmark in list order, each as x, y, z, visibility; and a frame with
\* N > 0 landmarks has exactly one such message once the loop is back at the
\* poll.
C3_PoseCountAndPayload ==
    /\ \A n \in Frames : \A e \in At("pub_pose", n) :
         LET lms == ResultsOf(n).pose_world_landmarks.landmark
             N == Len(lms)
             payload == trace[e].parts[2]
         IN  /\ trace[e].parts[1].obj.count = N
             /\ Len(payload) = 4 * N * 4
             /\ \A i \in 1..N : \A b \in 1..4 :
                  /\ payload[16 * (i - 1) + b] = [f32 |-> lms[i].x, byte |-> b - 1]
                  /\ payload[16 * (i - 1) + 4 + b] = [f32 |-> lms[i].y, byte |-> b - 1]
                  /\ payload[16 * (i - 1) + 8 + b] = [f32 |-> lms[i].z, byte |-> b - 1]
                  /\ payload[16 * (i - 1) + 12 + b] =
                        [f32 |-> lms[i].visibility, byte |-> b - 1]
             /\ \E k \in DOMAIN pubPose : pubPose[k] = trace[e].parts
    /\ \A n \in Frames :
         LandmarksFound(n) /\ ReturnedToPoll(n) => Cardinality(At("pub_pose", n)) = 1

\* C3 witness: a pose message for a frame with MaxLandmarks landmarks is on
\* the pose channel.
C3_Witness ==
    \E n \in Frames :
        /\ LandmarksFound(n)
        /\ NumLandmarks(n) = MaxLandmarks
        /\ At("pub_pose", n) # {}
        /\ pubPose # <<>>

C5_MalformedPayloadSkipped ==
    \A n \in Frames :
        (Len(RecvMsg(n)) >= 2 /\ RecvMsg(n)[2].kind \in {"empty", "noise"}) =>
            /\ At("pub_img", n) = {}
            /\ At("pub_pose", n) = {}
            /\ \A i \in At("raise", n) : trace[i].at # "decode"

\* The frame whose image a preview message carries / whose landmarks a pose
\* message carries: its place in the order of receipt.
FrameOfPix(k) ==
    CHOOSE n \in Frames :
        /\ Len(RecvMsg(n)) >= 2
        /\ RecvMsg(n)[2].kind = "jpeg"
        /\ RecvMsg(n)[2].buf.pix = k
FrameOfPreview(parts) == FrameOfPix(parts[2].buf.pix)
FrameOfPose(parts) == FrameOfPix(PixOfValue(parts[2][1].f32))

\* C6: on each outbound channel the messages stand in the order in which
\* their frames were received.
C6_ChannelsKeepReceiptOrder ==
    /\ \A i, j \in DOMAIN pubImg :
         i < j => FrameOfPreview(pubImg[i]) < FrameOfPreview(pubImg[j])
    /\ \A i, j \in DOMAIN pubPose :
         i < j => FrameOfPose(pubPose[i]) < FrameOfPose(pubPose[j])

\* C6 witness: two previews and two pose messages have been sent.
C6_Witness == Len(pubImg) >= 2 /\ Len(pubPose) >= 2

\* The publish events that carry frame m's image / frame m's landmarks.
PreviewsOf(m) == {e \in Events("pub_img") : trace[e].parts[2].buf.pix = PixOf(m)}
PosesOf(m) == {e \in Events("pub_pose") : PixOfValue(trace[e].parts[2][1].f32) = PixOf(m)}

\* C7: when a message is received, every frame received before it was either
\* skipped at the decode or has its preview, and its pose message if it has
\* landmarks, already sent; nothing of an earlier frame is sent afterwards.
C7_PublishedBeforeNextReceive ==
    \A i \in Events("recv") : \A m \in 1..(trace[i].n - 1) :
        \/ Skipped(m) /\ \A e \in At("skip", m) : e < i
        \/ /\ Decoded(m)
           /\ \E e \in PreviewsOf(m) : e < i
           /\ LandmarksFound(m) => \E e \in PosesOf(m) : e < i
           /\ \A e \in PreviewsOf(m) \cup PosesOf(m) : e < i

\* C7 witness: a second message has been received after a frame with
\* landmarks, whose preview and pose message are both out.
C7_Witness ==
    /\ NumRecv >= 2
    /\ LandmarksFound(1)
    /\ Len(pubImg) >= 1
    /\ Len(pubPose) >= 1

\* The events of the loop body.
LoopEvents == {"recv", "skip", "decoded", "estimate", "draw", "pub_img", "pub_pose", "raise"}

\* C8: once an exception has been raised in the loop body, the loop is left
\* for good: no message is received or sent after it, nothing is retried, and
\* the queue and the channels stay as they were.
C8_ErrorIsFatal ==
    /\ Cardinality(Events("raise")) <= 1
    /\ \A i \in Events("raise") :
         /\ pc \notin TryLines
         /\ \A j \in DOMAIN trace : j > i => trace[j].kind \notin LoopEvents
    /\ Len(pubImg) = Cardinality(Events("pub_img"))
    /\ Len(pubPose) = Cardinality(Events("pub_pose"))
    /\ Len(inQ) + NumRecv = produced

\* C8 witness: the send of a pose message failed after the frame's preview
\* was sent, another message was still queued, and the process has exited.
C8_Witness ==
    /\ \E i \in Events("raise") : trace[i].at = "send_pose" /\ trace[i].exc = "zmq.ZMQError"
    /\ pubImg # <<>>
    /\ inQ # <<>>
    /\ pc = "exited"

\* The order in which lines 94-96 close the sockets.
CloseOrder == <<"socket_sub", "socket_pub_img", "socket_pub_pose">>

\* C9: after an interrupt no message is received or sent, the sockets are
\* closed in the order socket_sub, socket_pub_img, socket_pub_pose, and the
\* process has not exited before all three are closed.
C9_InterruptClosesAllThenExits ==
    /\ \A i \in Events("interrupt") :
         \A j \in DOMAIN trace : j > i => trace[j].kind \notin LoopEvents
    /\ Len(closed) <= 3 /\ closed = SubSeq(CloseOrder, 1, Len(closed))
    /\ (Events("interrupt") # {} /\ pc \in {"exited", "crashed"}) => closed = CloseOrder

\* C10: no socket is closed twice, the loop body runs only with all three
\* sockets open, and when the process has exited each socket has been closed
\* exactly once.
C10_EachSocketClosedOnce ==
    /\ \A s \in {"socket_sub", "socket_pub_img", "socket_pub_pose"} :
         /\ Cardinality({i \in DOMAIN closed : closed[i] = s}) <= 1
         /\ pc \in {"exited", "crashed"} =>
                Cardinality({i \in DOMAIN closed : closed[i] = s}) = 1
    /\ pc \in TryLines => closed = <<>>


----------------------------------------------------------------------------
\* C11: what the loop decides and sends for a frame is a function of the
\* number of parts, the image part and the estimator's result, none of which
\* is the metadata part: the decode raises exactly for a missing or empty
\* image part, skips exactly for undecodable bytes, and the preview and pose
\* messages are built from the decoded image and the landmarks alone.  Two
\* runs that differ only in the metadata therefore send the same messages
\* (the timestamp aside) and take the same decisions.
C11_MetadataNeverRead ==
    \A n \in Frames :
        LET m == RecvMsg(n)
        IN  /\ \A i \in At("raise", n) :
                 trace[i].at = "decode" => (Len(m) < 2 \/ m[2].kind = "empty")
            /\ Skipped(n) => (Len(m) >= 2 /\ m[2].kind = "noise")
            /\ Decoded(n) => (Len(m) >= 2 /\ m[2].kind = "jpeg")
            /\ (n < NumRecv \/ pc \in {"poll", "recv"}) => (Skipped(n) \/ Decoded(n))
            /\ \A i \in At("pub_img", n) :
                 LET drawn == ResultsOf(n).pose_landmarks # None
                     img == m[2].buf
                 IN  /\ trace[i].parts[1].obj.w = img.w
                     /\ trace[i].parts[1].obj.h = img.h
                     /\ trace[i].parts[2] =
                            JpegBytes([img EXCEPT !.overlay = drawn], JpegQuality)
            /\ \A i \in At("pub_pose", n) :
                 trace[i].parts =
                    <<JsonBytes([count |-> NumLandmarks(n)]),
                      tobytes(extend(ResultsOf(n).pose_world_landmarks.landmark))>>

\* C11 witness: two frames whose metadata parts differ have both been
\* decoded and have both had their previews sent.
C11_Witness ==
    \E n, m \in Frames :
        /\ RecvMsg(n)[1] # RecvMsg(m)[1]
        /\ At("pub_img", n) # {}
        /\ At("pub_img", m) # {}


\* C12: a received message that does not have exactly two parts, or whose
\* image part does not decode, is skipped: nothing is sent for it, the decode
\* raises nothing, and once the loop has dealt with it, it was skipped.
C12_BadMessageDiscarded ==
    \A n \in Frames :
        LET m == RecvMsg(n)
        IN  (Len(m) # 2 \/ m[2].kind # "jpeg") =>
                /\ At("pub_img", n) = {}
                /\ At("pub_pose", n) = {}
                /\ \A i \in At("raise", n) : trace[i].at # "decode"
                /\ At("decoded", n) = {}


\* C13: the queue loses a message only by a receive, which takes exactly
\* one, the oldest, and hands it to the decode; a receive happens once per
\* iteration, right after the poll reported a message; and every received
\* message went through the decode, unless the loop was stopped by an
\* interrupt before it got there.
C13_OneMessagePerIteration ==
    /\ [](Len(inQ) + NumRecv = produced)
    /\ [](\A n \in Frames :
            \/ Skipped(n)
            \/ Decoded(n)
            \/ \E i \in At("raise", n) : trace[i].at = "decode"
            \/ n = NumRecv /\ pc = "decode"
            \/ n = NumRecv /\ pc \notin TryLines /\ At("interrupt", n) # {})
    /\ [][inQ' # inQ =>
            \/ produced' = produced + 1 /\ SubSeq(inQ', 1, Len(inQ)) = inQ
                 /\ Len(inQ') = Len(inQ) + 1 /\ NumRecv' = NumRecv
            \/ pc = "recv" /\ inQ # <<>> /\ msg' = Head(inQ) /\ inQ' = Tail(inQ)
                 /\ pc' = "decode" /\ NumRecv' = NumRecv + 1]_vars
    /\ [][(pc = "recv" /\ pc' # pc /\ pc' \in TryLines) =>
            (pc' = "decode" /\ Len(inQ') = Len(inQ) - 1)]_vars
    /\ [][NumRecv' # NumRecv => pc = "recv"]_vars

\* C13 witness: one message has been received and is at the decode while
\* another one is still queued.
C13_Witness == pc = "decode" /\ NumRecv >= 1 /\ Len(inQ) >= 1


\* C14: a step of the loop taken at the poll with nothing queued leaves the
\* queue, the locals, both channels and the sockets as they are and stays at
\* the poll; the receive line is reached only from a poll that found a
\* message, so a message is queued whenever the loop is at the receive and
\* the receive does not block.
C14_PollTimeoutIsNoOp ==
    /\ [][(pc = "poll" /\ inQ = <<>> /\ produced' = produced /\ pc' \in TryLines) =>
            /\ pc' = "poll"
            /\ UNCHANGED <<inQ, msg, frame, results, kp_list, buffer,
                           pubImg, pubPose, closed, trace>>]_vars
    /\ [][(pc' = "recv" /\ pc # "recv") => (pc = "poll" /\ inQ # <<>>)]_vars
    /\ [](pc = "recv" => inQ # <<>>)

\* C14 witness: the loop is at the poll with nothing queued, after a frame
\* went through it, with all sockets open.
C14_Witness ==
    /\ pc = "poll"
    /\ inQ = <<>>
    /\ NumRecv >= 1
    /\ closed = <<>>
    /\ pubImg # <<>>


\* C15: whenever a pose message of a frame has been sent, the preview of
\* that frame was sent before it; a frame can have a preview without a pose
\* message, never a pose message without a preview.
C15_PreviewBeforePose ==
    /\ \A e \in Events("pub_pose") :
         \E i \in Events("pub_img") :
            /\ i < e
            /\ trace[i].n = trace[e].n
            /\ trace[i].parts[2].buf.pix = PixOfValue(trace[e].parts[2][1].f32)
    /\ \A k \in DOMAIN pubPose :
         \E j \in DOMAIN pubImg :
            pubImg[j][2].buf.pix = PixOfValue(pubPose[k][2][1].f32)

\* C15 witness: a frame's preview and pose message are both out, and the
\* next frame has its preview out while its pose message is not sent yet.
C15_Witness ==
    /\ Len(pubPose) = 1
    /\ Len(pubImg) = 2
    /\ pc = "send_pose"
    /\ kp_list # <<>>


\* C16: past the keypoint extraction, the locals the messages are built from
\* hold the current frame's data only (its image, its estimator result, and
\* in kp_list four values per landmark of that result, none from another
\* image); every pose message sent for a frame holds that frame's landmarks
\* only; and a frame without landmarks has no pose message, whatever the
\* frame before it had.
C16_NoCrossFrameState ==
    /\ pc \in {"encode", "send_img", "send_pose"} =>
         /\ results = ResultsOf(NumRecv)
         /\ frame.pix = PixOf(NumRecv)
         /\ \A i \in DOMAIN kp_list : PixOfValue(kp_list[i]) = PixOf(NumRecv)
         /\ Len(kp_list) =
               IF results.pose_landmarks # None
                 THEN 4 * Len(results.pose_world_landmarks.landmark)
                 ELSE 0
    /\ pc \in {"send_img"} => buffer.buf.pix = PixOf(NumRecv)
    /\ \A n \in Frames :
         /\ \A e \in At("pub_pose", n) :
              /\ \A b \in DOMAIN trace[e].parts[2] :
                   PixOfValue(trace[e].parts[2][b].f32) = PixOf(n)
              /\ Len(trace[e].parts[2]) = 16 * NumLandmarks(n)
              /\ trace[e].parts[1].obj.count = NumLandmarks(n)
         /\ (Estimated(n) /\ ~LandmarksFound(n)) => At("pub_pose", n) = {}

\* C16 witness: a frame with landmarks had its pose message sent, the next
\* frame had none found, and the loop is back at the poll with that one pose
\* message on the channel.
C16_Witness ==
    \E n \in Frames :
        /\ n >= 2
        /\ LandmarksFound(n - 1)
        /\ At("pub_pose", n - 1) # {}
        /\ NoLandmarks(n)
        /\ ReturnedToPoll(n)
        /\ Len(pubPose) = 1


\* C17 as claimed: the receive drains the queue and keeps the newest message,
\* so with several messages queued only the newest is decoded.
C17_DrainKeepsNewest ==
    [][(pc = "recv" /\ pc' = "decode") => (msg' = inQ[Len(inQ)] /\ inQ' = <<>>)]_vars

\* C17 as amended: the loop has no drain step.  A receive takes the oldest
\* queued message and leaves the others queued in their order, so the n-th
\* message received is the n-th message published to the loop, whatever was
\* queued behind it.
C17_NoDrainOldestFirst ==
    /\ [][(pc = "recv" /\ pc' = "decode") =>
            /\ msg' = inQ[1]
            /\ Len(inQ') = Len(inQ) - 1
            /\ \A i \in DOMAIN inQ' : inQ'[i] = inQ[i + 1]]_vars
    /\ [](\A n \in Frames :
            (Len(RecvMsg(n)) >= 2 /\ RecvMsg(n)[2].kind = "jpeg") => PixOf(n) = n)

\* C17 witness: the first message published is being worked on, decoded,
\* while every later one is still queued behind it.
C17_Witness ==
    /\ NumRecv = 1
    /\ Decoded(1)
    /\ PixOf(1) = 1
    /\ produced >= 2
    /\ Len(inQ) = produced - 1
    /\ pc = "estimate"


\* C18: the two output streams agree per frame.  For every frame whose
\* iteration ran to its end with a preview sent, the preview carries the
\* skeleton overlay if and only if a pose message was sent for that frame.
C18_OverlayIffPoseMessage ==
    \A n \in Frames :
        (ReturnedToPoll(n) /\ At("pub_img", n) # {}) =>
            \A e \in At("pub_img", n) :
                trace[e].parts[2].buf.overlay <=> (At("pub_pose", n) # {})


\* An interrupt or an exception has happened.
C19_Stopped == Events("raise") \cup Events("interrupt") # {}

\* The k-th message was received and was either skipped at the decode or
\* answered with a preview.
C19_Handled(k) == k <= NumRecv /\ (Skipped(k) \/ At("pub_img", k) # {})

\* C19: progress.  Under weak fairness of the loop's statements, and unless an
\* interrupt or an exception happens, every message that reaches the inbound
\* queue is eventually received and then skipped or answered with a preview;
\* and the loop is left only through an interrupt or an exception, never
\* through a poll timeout or a failed decode.
C19_Progress ==
    /\ \A k \in 1..MaxFrames : (produced >= k) ~> (C19_Handled(k) \/ C19_Stopped)
    /\ [][(pc \in TryLines /\ pc' \notin TryLines) =>
            /\ Len(trace') > Len(trace)
            /\ trace'[Len(trace')].kind \in {"raise", "interrupt"}]_vars
    /\ [](C19_Stopped \/ pc \in TryLines)

\* C19 witness: after a failed decode and an answered frame, with the queue
\* empty and nothing raised, the loop is still polling.
C19_Witness ==
    /\ NumRecv = 2
    /\ Skipped(1)
    /\ At("pub_img", 2) # {}
    /\ ~C19_Stopped
    /\ inQ = <<>>
    /\ pc = "poll"

====
